---- MODULE Spec2Model ----
(***************************************************************************)
(* Blood-pressure simulator: the Dataset Engine (bloodPressureGenerator),  *)
(* the Session Store (storageManager, on top of window.localStorage) and   *)
(* the Application Controller (the Home component of app/page.tsx).        *)
(*                                                                         *)
(* JavaScript values are tagged records, text is a sequence of one-        *)
(* character strings, and the conversions between the two (toString,       *)
(* parseInt, JSON.stringify, JSON.parse) are computed character by         *)
(* character.                                                              *)
(***************************************************************************)
EXTENDS Integers, Sequences, FiniteSets, TLC

\* ------------------------------------------------------------------------
\* Bounds of the model
\* ------------------------------------------------------------------------
\* largest systolic value of the scaled-down configurations
MaxSys == 4
\* taps are possible while the in-memory cursor is below this
MaxTaps == 3
\* the wall clock (Date.now()) runs from 1 to MaxClock
MaxClock == 2
\* largest magnitude of an index handed to storeCurrentIndex
MaxIdx == 12
\* getReadingAtIndex is called with the indices -MaxIndex..MaxIndex
MaxIndex == 7
\* an index is compared with the indices up to MaxPeriods dataset lengths away
MaxPeriods == 2

\* ------------------------------------------------------------------------
\* JavaScript values
\* ------------------------------------------------------------------------
JNull == [t |-> "null"]
JUndef == [t |-> "undefined"]
JNaN == [t |-> "nan"]
JNum(n) == [t |-> "num", v |-> n]
JBool(b) == [t |-> "bool", v |-> b]
\* a string value: v is its sequence of characters
JStr(s) == [t |-> "str", v |-> s]
\* an array value: v is the sequence of its elements
JArr(s) == [t |-> "arr", v |-> s]
\* an object value: v is the sequence of its <<key, value>> properties, in
\* insertion order
JObj(ps) == [t |-> "obj", v |-> ps]

\* x === undefined (an AppError record has no tag)
IsUndefined(x) == "t" \in DOMAIN x /\ x.t = "undefined"

\* !x is true for these
Falsy(x) ==
    \/ x.t \in {"null", "undefined", "nan"}
    \/ x.t = "num" /\ x.v = 0
    \/ x.t = "bool" /\ x.v = FALSE
    \/ x.t = "str" /\ x.v = <<>>

DigitChars == <<"0", "1", "2", "3", "4", "5", "6", "7", "8", "9">>
IsDigit(c) == \E i \in 1..10 : DigitChars[i] = c
DigitVal(c) == (CHOOSE i \in 1..10 : DigitChars[i] = c) - 1

RECURSIVE NatToString(_)
NatToString(n) ==
    IF n < 10 THEN <<DigitChars[n + 1]>>
    ELSE NatToString(n \div 10) \o <<DigitChars[(n % 10) + 1]>>

\* Number.prototype.toString() of an integer
NumberToString(n) ==
    IF n < 0 THEN <<"-">> \o NatToString(0 - n) ELSE NatToString(n)

\* the position of the first character of txt at or after pos that is not a
\* blank (Len(txt)+1 if there is none)
RECURSIVE SkipWs(_, _)
SkipWs(txt, pos) ==
    IF pos <= Len(txt) /\ txt[pos] = " " THEN SkipWs(txt, pos + 1) ELSE pos

\* the value of the longest run of digits of txt that starts at pos, as
\* [n |-> value, pos |-> position after the run]
RECURSIVE ReadDigits(_, _, _)
ReadDigits(txt, pos, acc) ==
    IF pos <= Len(txt) /\ IsDigit(txt[pos])
    THEN ReadDigits(txt, pos + 1, acc * 10 + DigitVal(txt[pos]))
    ELSE [n |-> acc, pos |-> pos]

\* a variant that reads digits only, without a sign
parseInt_unsigned(txt) ==
    LET p0 == SkipWs(txt, 1)
        r == ReadDigits(txt, p0, 0)
    IN  IF r.pos = p0 THEN JNaN ELSE JNum(r.n)

\* parseInt(txt, 10): leading blanks and one sign are skipped, the longest
\* prefix of digits is the value and whatever follows it is ignored; NaN
\* when there is no digit
parseInt(txt) ==
    LET p0 == SkipWs(txt, 1)
        signed == p0 <= Len(txt) /\ txt[p0] \in {"-", "+"}
        p1 == IF signed THEN p0 + 1 ELSE p0
        r == ReadDigits(txt, p1, 0)
    IN  IF r.pos = p1 THEN JNaN
        ELSE IF signed /\ txt[p0] = "-" THEN JNum(0 - r.n) ELSE JNum(r.n)

\* ------------------------------------------------------------------------
\* JSON text
\* ------------------------------------------------------------------------
Quote == "\""

RECURSIVE JSONstringify(_)
RECURSIVE StringifyElems(_, _)
RECURSIVE StringifyProps(_, _)

\* the elements s[i..] of an array, separated by commas; undefined and NaN
\* are written as null
StringifyElems(s, i) ==
    IF i > Len(s) THEN <<>>
    ELSE (IF i > 1 THEN <<",">> ELSE <<>>)
         \o (IF s[i].t \in {"undefined", "nan"} THEN <<"n", "u", "l", "l">>
             ELSE JSONstringify(s[i]))
         \o StringifyElems(s, i + 1)

\* the properties ps[i..] of an object; a property whose value is undefined
\* is left out
StringifyProps(ps, first) ==
    IF ps = <<>> THEN <<>>
    ELSE IF ps[1][2].t = "undefined" THEN StringifyProps(Tail(ps), first)
    ELSE (IF first THEN <<>> ELSE <<",">>)
         \o <<Quote>> \o ps[1][1] \o <<Quote, ":">>
         \o (IF ps[1][2].t = "nan" THEN <<"n", "u", "l", "l">>
             ELSE JSONstringify(ps[1][2]))
         \o StringifyProps(Tail(ps), FALSE)

\* JSON.stringify(value), for a value other than undefined
JSONstringify(x) ==
    CASE x.t = "num" -> NumberToString(x.v)
      [] x.t = "str" -> <<Quote>> \o x.v \o <<Quote>>
      [] x.t = "bool" -> IF x.v THEN <<"t", "r", "u", "e">>
                         ELSE <<"f", "a", "l", "s", "e">>
      [] x.t = "arr" -> <<"[">> \o StringifyElems(x.v, 1) \o <<"]">>
      [] x.t = "obj" -> <<"{">> \o StringifyProps(x.v, TRUE) \o <<"}">>
      [] OTHER -> <<"n", "u", "l", "l">>

\* txt has the characters of word at pos
HasWord(txt, pos, word) ==
    /\ pos + Len(word) - 1 <= Len(txt)
    /\ \A i \in 1..Len(word) : txt[pos + i - 1] = word[i]

\* the position of the closing quote of the string literal whose first
\* character is at pos (0 if it is not closed or holds a backslash)
RECURSIVE StringEnd(_, _)
StringEnd(txt, pos) ==
    IF pos > Len(txt) \/ txt[pos] = "\\" THEN 0
    ELSE IF txt[pos] = Quote THEN pos
    ELSE StringEnd(txt, pos + 1)

ParseFail == [ok |-> FALSE]
ParseOk(val, pos) == [ok |-> TRUE, val |-> val, pos |-> pos]

\* a property list with the property key set to val: a repeated key keeps
\* its place and takes the later value
SetProp(ps, key, val) ==
    IF \E i \in 1..Len(ps) : ps[i][1] = key
    THEN [i \in 1..Len(ps) |-> IF ps[i][1] = key THEN <<key, val>> ELSE ps[i]]
    ELSE Append(ps, <<key, val>>)

RECURSIVE ParseValue(_, _)
RECURSIVE ParseElems(_, _, _)
RECURSIVE ParseProps(_, _, _)

\* the elements of an array after its first: pos is after an element
ParseElems(txt, pos, acc) ==
    LET p == SkipWs(txt, pos)
    IN  IF p > Len(txt) THEN ParseFail
        ELSE IF txt[p] = "]" THEN ParseOk(JArr(acc), p + 1)
        ELSE IF txt[p] # "," THEN ParseFail
        ELSE LET e == ParseValue(txt, p + 1)
             IN  IF ~e.ok THEN ParseFail
                 ELSE ParseElems(txt, e.pos, Append(acc, e.val))

\* one property of an object, then the rest: pos is where a key must start
ParseProps(txt, pos, acc) ==
    LET p == SkipWs(txt, pos)
    IN  IF p > Len(txt) \/ txt[p] # Quote THEN ParseFail
        ELSE LET q == StringEnd(txt, p + 1)
                 c == SkipWs(txt, q + 1)
             IN  IF q = 0 \/ c > Len(txt) \/ txt[c] # ":" THEN ParseFail
                 ELSE LET e == ParseValue(txt, c + 1)
                          key == SubSeq(txt, p + 1, q - 1)
                      IN  IF ~e.ok THEN ParseFail
                          ELSE LET n == SkipWs(txt, e.pos)
                                   ps == SetProp(acc, key, e.val)
                               IN  IF n > Len(txt) THEN ParseFail
                                   ELSE IF txt[n] = "}" THEN ParseOk(JObj(ps), n + 1)
                                   ELSE IF txt[n] = "," THEN ParseProps(txt, n + 1, ps)
                                   ELSE ParseFail

\* one JSON value starting at or after pos: null, true, false, an integer,
\* a string without escapes, an array or an object
ParseValue(txt, pos) ==
    LET p == SkipWs(txt, pos)
    IN  IF p > Len(txt) THEN ParseFail
        ELSE IF HasWord(txt, p, <<"n", "u", "l", "l">>) THEN ParseOk(JNull, p + 4)
        ELSE IF HasWord(txt, p, <<"t", "r", "u", "e">>) THEN ParseOk(JBool(TRUE), p + 4)
        ELSE IF HasWord(txt, p, <<"f", "a", "l", "s", "e">>) THEN ParseOk(JBool(FALSE), p + 5)
        ELSE IF txt[p] = Quote THEN
            LET q == StringEnd(txt, p + 1)
            IN  IF q = 0 THEN ParseFail
                ELSE ParseOk(JStr(SubSeq(txt, p + 1, q - 1)), q + 1)
        ELSE IF txt[p] = "-" \/ IsDigit(txt[p]) THEN
            LET neg == txt[p] = "-"
                d == IF neg THEN p + 1 ELSE p
            IN  IF d > Len(txt) \/ ~IsDigit(txt[d]) THEN ParseFail
                ELSE IF txt[d] = "0" THEN ParseOk(JNum(0), d + 1)
                ELSE LET r == ReadDigits(txt, d, 0)
                     IN  ParseOk(JNum(IF neg THEN 0 - r.n ELSE r.n), r.pos)
        ELSE IF txt[p] = "[" THEN
            LET n == SkipWs(txt, p + 1)
            IN  IF n <= Len(txt) /\ txt[n] = "]" THEN ParseOk(JArr(<<>>), n + 1)
                ELSE LET e == ParseValue(txt, n)
                     IN  IF ~e.ok THEN ParseFail
                         ELSE ParseElems(txt, e.pos, <<e.val>>)
        ELSE IF txt[p] = "{" THEN
            LET n == SkipWs(txt, p + 1)
            IN  IF n <= Len(txt) /\ txt[n] = "}" THEN ParseOk(JObj(<<>>), n + 1)
                ELSE ParseProps(txt, n, <<>>)
        ELSE ParseFail

\* JSON.parse(txt): the value of the whole text, or a SyntaxError
JSONparse(txt) ==
    LET r == ParseValue(txt, 1)
    IN  IF r.ok /\ SkipWs(txt, r.pos) = Len(txt) + 1
        THEN [ok |-> TRUE, val |-> r.val]
        ELSE [ok |-> FALSE]

\* ------------------------------------------------------------------------
\* JavaScript operators on values
\* ------------------------------------------------------------------------
\* the number a string converts to: blanks around it are dropped, the empty
\* string is 0, an optionally signed run of digits is its value, anything
\* else is NaN
StringToNumber(s) ==
    LET p0 == SkipWs(s, 1)
        signed == p0 <= Len(s) /\ s[p0] \in {"-", "+"}
        p1 == IF signed THEN p0 + 1 ELSE p0
        r == ReadDigits(s, p1, 0)
    IN  IF p0 > Len(s) THEN JNum(0)
        ELSE IF r.pos = p1 \/ SkipWs(s, r.pos) # Len(s) + 1 THEN JNaN
        ELSE IF signed /\ s[p0] = "-" THEN JNum(0 - r.n) ELSE JNum(r.n)

\* the number a value converts to in an arithmetic or relational operator
RECURSIVE ToNumber(_)
ToNumber(x) ==
    CASE x.t = "num" -> x
      [] x.t = "null" -> JNum(0)
      [] x.t = "bool" -> JNum(IF x.v THEN 1 ELSE 0)
      [] x.t = "str" -> StringToNumber(x.v)
      [] x.t = "arr" ->
            IF Len(x.v) = 0 THEN JNum(0)
            ELSE IF Len(x.v) > 1 THEN JNaN
            ELSE IF x.v[1].t \in {"null", "undefined"} THEN JNum(0)
            ELSE IF x.v[1].t \in {"num", "str", "arr"} THEN ToNumber(x.v[1])
            ELSE JNaN
      [] OTHER -> JNaN

\* a < b, a > b, a >= b, a <= b on numbers: false when either is NaN
Lt(a, b) == LET x == ToNumber(a) y == ToNumber(b)
            IN x.t = "num" /\ y.t = "num" /\ x.v < y.v
Gt(a, b) == Lt(b, a)
Ge(a, b) == LET x == ToNumber(a) y == ToNumber(b)
            IN x.t = "num" /\ y.t = "num" /\ x.v >= y.v
Le(a, b) == Ge(b, a)

\* a - b
Sub(a, b) == LET x == ToNumber(a) y == ToNumber(b)
             IN IF x.t = "num" /\ y.t = "num" THEN JNum(x.v - y.v) ELSE JNaN

Abs(n) == IF n < 0 THEN 0 - n ELSE n
Min(a, b) == IF a < b THEN a ELSE b

\* a % b: the remainder has the sign of the dividend; NaN for a zero or NaN
\* divisor
Rem(a, b) ==
    LET x == ToNumber(a) y == ToNumber(b)
    IN  IF x.t # "num" \/ y.t # "num" THEN JNaN
        ELSE IF y.v = 0 THEN JNaN
        ELSE IF x.v < 0 THEN JNum(0 - (Abs(x.v) % Abs(y.v)))
        ELSE JNum(x.v % Abs(y.v))

\* x[key] for a property name
Get(x, key) ==
    CASE x.t = "obj" ->
            IF \E i \in 1..Len(x.v) : x.v[i][1] = key
            THEN x.v[CHOOSE i \in 1..Len(x.v) : x.v[i][1] = key][2]
            ELSE JUndef
      [] x.t \in {"arr", "str"} ->
            IF key = <<"l", "e", "n", "g", "t", "h">> THEN JNum(Len(x.v))
            ELSE JUndef
      [] OTHER -> JUndef

\* x[n] for a number n
Index(x, n) ==
    CASE x.t = "arr" ->
            IF n.t = "num" /\ n.v >= 0 /\ n.v < Len(x.v) THEN x.v[n.v + 1] ELSE JUndef
      [] x.t = "str" ->
            IF n.t = "num" /\ n.v >= 0 /\ n.v < Len(x.v) THEN JStr(<<x.v[n.v + 1]>>)
            ELSE JUndef
      [] x.t = "obj" ->
            Get(x, IF n.t = "num" THEN NumberToString(n.v) ELSE <<"N", "a", "N">>)
      [] OTHER -> JUndef

\* ------------------------------------------------------------------------
\* State
\* ------------------------------------------------------------------------
VARIABLES
    CONFIG,         \* the configuration of the Dataset Engine
    now,            \* the wall clock, Date.now()
    localStorage,   \* the host store: a function from the keys present to text
    appState,       \* Home: currentReading, datasetSize, currentIndex, isInitialized
    isLoading,      \* Home: the loading flag
    error,          \* Home: the error message, or null
    dataset,        \* Home: the in-memory dataset
    mounted,        \* the mount effect of Home has run
    taps,           \* history: the taps since the last initializeApp that ran to
                    \* its end, -1 if there is none or a write has failed since
    generated,      \* history: the dataset of the last successful
                    \* generateBloodPressureDataset(), null if there is none
    shown,          \* history: the readings displayed since the last initializeApp
                    \* that ran to its end, empty after a later page load
    written,        \* history: per slot, the value its last successful store call
                    \* was given, null if the slot was removed or written
                    \* directly since
    obs             \* what the last operation was given and what it returned

vars == <<CONFIG, now, localStorage, appState, isLoading, error, dataset, mounted,
          taps, generated, shown, written, obs>>

\* ------------------------------------------------------------------------
\* Dataset Engine
\* ------------------------------------------------------------------------
Range(lo, hi) == [min |-> lo, max |-> hi]
Config(s, d, p) == [systolic |-> s, diastolic |-> d, pulsePresssure |-> p]

Ksystolic == <<"s", "y", "s", "t", "o", "l", "i", "c">>
Kdiastolic == <<"d", "i", "a", "s", "t", "o", "l", "i", "c">>
Ktimestamp == <<"t", "i", "m", "e", "s", "t", "a", "m", "p">>

\* the object literal { systolic, diastolic, timestamp }
BloodPressureReading(s, d, ts) ==
    JObj(<< <<Ksystolic, JNum(s)>>, <<Kdiastolic, JNum(d)>>, <<Ktimestamp, JNum(ts)>> >>)

\* a variant with strict bounds (> and < for >= and <=)
isValidPulsePreasure_strict(systolic, diastolic) ==
    LET pulsePressure == Sub(systolic, diastolic)
    IN  /\ Gt(pulsePressure, JNum(CONFIG.pulsePresssure.min))
        /\ Lt(pulsePressure, JNum(CONFIG.pulsePresssure.max))

\* a variant without the lower bound
isValidPulsePreasure_noMin(systolic, diastolic) ==
    LET pulsePressure == Sub(systolic, diastolic)
    IN  Le(pulsePressure, JNum(CONFIG.pulsePresssure.max))

isValidPulsePreasure(systolic, diastolic) ==
    LET pulsePressure == Sub(systolic, diastolic)
    IN  /\ Ge(pulsePressure, JNum(CONFIG.pulsePresssure.min))
        /\ Le(pulsePressure, JNum(CONFIG.pulsePresssure.max))

\* the array with elements i and j exchanged (positions counted from 0)
Swap(array, i, j) ==
    [k \in 1..Len(array) |->
        IF k = i + 1 THEN array[j + 1] ELSE IF k = j + 1 THEN array[i + 1] ELSE array[k]]

\* the loop of shuffleArray from position i down to 1: every array it can
\* end with, one for each draw of j in 0..i at each step
RECURSIVE ShuffleFrom(_, _)
ShuffleFrom(shuffled, i) ==
    IF i <= 0 THEN {shuffled}
    ELSE UNION {ShuffleFrom(Swap(shuffled, i, j), i - 1) : j \in 0..i}

\* a variant whose step copies element j over element i instead of
\* exchanging them
RECURSIVE OverwriteFrom(_, _)
OverwriteFrom(shuffled, i) ==
    IF i <= 0 THEN {shuffled}
    ELSE UNION {OverwriteFrom([shuffled EXCEPT ![i + 1] = shuffled[j + 1]], i - 1) : j \in 0..i}

shuffleArray_overwrite(array) == OverwriteFrom(array, Len(array) - 1)

\* every outcome of shuffleArray(array)
shuffleArray(array) == ShuffleFrom(array, Len(array) - 1)

\* the inner loop of generateAllCombinations for one systolic value; loop is
\* <<diastolic, combinations>>, the loop variable and the array as they are
\* when the loop test is evaluated
RECURSIVE DiastolicFrom(_, _, _)
DiastolicFrom(systolic, loop, baseTimestamp) ==
    LET diastolic == loop[1]
        combinations == loop[2]
    IN  IF diastolic > CONFIG.diastolic.max THEN combinations
        ELSE DiastolicFrom(systolic,
                <<diastolic + 1,
                  IF isValidPulsePreasure(JNum(systolic), JNum(diastolic))
                  THEN Append(combinations,
                          BloodPressureReading(systolic, diastolic,
                              baseTimestamp + Len(combinations) * 1000))
                  ELSE combinations>>,
                baseTimestamp)

\* the outer loop; loop is <<systolic, combinations>>
RECURSIVE CombinationsFrom(_, _)
CombinationsFrom(loop, baseTimestamp) ==
    LET systolic == loop[1]
        combinations == loop[2]
    IN  IF systolic > CONFIG.systolic.max THEN combinations
        ELSE CombinationsFrom(
                <<systolic + 1,
                  DiastolicFrom(systolic, <<CONFIG.diastolic.min, combinations>>,
                                baseTimestamp)>>,
                baseTimestamp)

generateAllCombinations ==
    CombinationsFrom(<<CONFIG.systolic.min, <<>>>>, now)

\* the inner loop of calculateExpectedCombinations; loop is <<diastolic, count>>
RECURSIVE CountDiastolicFrom(_, _)
CountDiastolicFrom(systolic, loop) ==
    LET diastolic == loop[1]
        count == loop[2]
    IN  IF diastolic > CONFIG.diastolic.max THEN count
        ELSE CountDiastolicFrom(systolic,
                <<diastolic + 1,
                  IF isValidPulsePreasure(JNum(systolic), JNum(diastolic))
                  THEN count + 1 ELSE count>>)

\* the outer loop of calculateExpectedCombinations; loop is <<systolic, count>>
RECURSIVE CountFrom(_)
CountFrom(loop) ==
    LET systolic == loop[1]
        count == loop[2]
    IN  IF systolic > CONFIG.systolic.max THEN count
        ELSE CountFrom(<<systolic + 1,
                         CountDiastolicFrom(systolic, <<CONFIG.diastolic.min, count>>)>>)

calculateExpectedCombinations ==
    CountFrom(<<CONFIG.systolic.min, 0>>)

AppError(type, message) == [type |-> type, message |-> message]

\* every DatasetResult generateBloodPressureDataset() can return
generateBloodPressureDataset ==
    LET allCombinations == generateAllCombinations
        expectedCount == calculateExpectedCombinations
    IN  IF Len(allCombinations) # expectedCount
        THEN {[success |-> FALSE, dataset |-> JUndef,
               error |-> AppError("GENERATION_ERROR", "Dataset generation failed")]}
        ELSE {[success |-> TRUE, dataset |-> JArr(shuffledDataset), error |-> JUndef] :
                shuffledDataset \in shuffleArray(allCombinations)}

\* x === 0
IsZero(x) == x.t = "num" /\ x.v = 0

Klength == <<"l", "e", "n", "g", "t", "h">>

getReadingAtIndex(ds, index) ==
    IF Falsy(ds) \/ IsZero(Get(ds, Klength))
    THEN JNull
    ELSE LET normalizedIndex == Rem(index, Get(ds, Klength))
         IN  Index(ds, normalizedIndex)

\* a variant that also rejects a systolic value on a bound of its range
validateReading_openRange(reading) ==
    IF Falsy(reading) THEN FALSE
    ELSE LET systolic == Get(reading, Ksystolic)
             diastolic == Get(reading, Kdiastolic)
         IN  IF Le(systolic, JNum(CONFIG.systolic.min))
                \/ Ge(systolic, JNum(CONFIG.systolic.max)) THEN FALSE
             ELSE IF Lt(diastolic, JNum(CONFIG.diastolic.min))
                \/ Gt(diastolic, JNum(CONFIG.diastolic.max)) THEN FALSE
             ELSE IF ~isValidPulsePreasure(systolic, diastolic) THEN FALSE
             ELSE TRUE

\* a variant without the pulse-pressure check
validateReading_noPulse(reading) ==
    IF Falsy(reading) THEN FALSE
    ELSE LET systolic == Get(reading, Ksystolic)
             diastolic == Get(reading, Kdiastolic)
         IN  IF Lt(systolic, JNum(CONFIG.systolic.min))
                \/ Gt(systolic, JNum(CONFIG.systolic.max)) THEN FALSE
             ELSE IF Lt(diastolic, JNum(CONFIG.diastolic.min))
                \/ Gt(diastolic, JNum(CONFIG.diastolic.max)) THEN FALSE
             ELSE TRUE

validateReading(reading) ==
    IF Falsy(reading) THEN FALSE
    ELSE LET systolic == Get(reading, Ksystolic)
             diastolic == Get(reading, Kdiastolic)
         IN  IF Lt(systolic, JNum(CONFIG.systolic.min))
                \/ Gt(systolic, JNum(CONFIG.systolic.max)) THEN FALSE
             ELSE IF Lt(diastolic, JNum(CONFIG.diastolic.min))
                \/ Gt(diastolic, JNum(CONFIG.diastolic.max)) THEN FALSE
             ELSE IF ~isValidPulsePreasure(systolic, diastolic) THEN FALSE
             ELSE TRUE

\* ------------------------------------------------------------------------
\* Session Store
\* ------------------------------------------------------------------------
STORAGE_KEYS == [dataset |-> "bp-dataset", index |-> "bp-index", timestamp |-> "bp-timestamp"]
\* the key the availability probe writes and deletes
TestKey == "__localStorage_test__"
TestText == <<"_", "_", "l", "o", "c", "a", "l", "S", "t", "o", "r", "a", "g", "e",
              "_", "t", "e", "s", "t", "_", "_">>

\* How the host behaves during one Session Store call:
\*   "ok"        every localStorage call of it succeeds
\*   "nowindow"  there is no window, or the probe's setItem throws
\*   "delfail"   the probe's removeItem throws
\*   "opfail"    the probe succeeds, the call's own setItem/removeItem throws
ReadHost == {"ok", "nowindow", "delfail"}
WriteHost == ReadHost \cup {"opfail"}
\* the behaviours the controller is run against: a host whose removeItem
\* does not fail in the probe
PageReadHost == {"ok", "nowindow"}
PageWriteHost == PageReadHost \cup {"opfail"}

\* localStorage.getItem(key): a string, or null when the key is absent
getItem(ls, key) == IF key \in DOMAIN ls THEN JStr(ls[key]) ELSE JNull
\* localStorage.setItem(key, text)
setItem(ls, key, text) == [k \in DOMAIN ls \cup {key} |-> IF k = key THEN text ELSE ls[k]]
\* localStorage.removeItem(key)
removeItem(ls, key) == [k \in DOMAIN ls \ {key} |-> ls[k]]

\* a variant of the probe that writes its key and does not delete it
isLocalStorageAvailable_noDelete(ls, h) ==
    CASE h = "nowindow" -> [ok |-> FALSE, ls |-> ls]
      [] OTHER -> [ok |-> TRUE, ls |-> setItem(ls, TestKey, TestText)]

\* the probe: [ok |-> its result, ls |-> the store it leaves]
isLocalStorageAvailable(ls, h) ==
    CASE h = "nowindow" -> [ok |-> FALSE, ls |-> ls]
      [] h = "delfail" -> [ok |-> FALSE, ls |-> setItem(ls, TestKey, TestText)]
      [] OTHER -> [ok |-> TRUE, ls |-> removeItem(setItem(ls, TestKey, TestText), TestKey)]

createStorageError(message) == AppError("STORAGE_ERROR", message)

\* a StorageResult
Success(data) == [success |-> TRUE, data |-> data, error |-> JUndef]
Failure(err) == [success |-> FALSE, data |-> JUndef, error |-> err]
\* what a Session Store call returns: the store it leaves and its result
Ret(ls, res) == [ls |-> ls, res |-> res]

Unavailable == Failure(createStorageError("localStorage is not available"))

safeJsonParse(jsonString) ==
    LET r == JSONparse(jsonString)
    IN  IF r.ok THEN Success(r.val)
        ELSE Failure(createStorageError("Failed to parse JSON data"))

\* a variant that serializes only the first reading
storeDataset_firstOnly(ls, h, ds) ==
    LET p == isLocalStorageAvailable(ls, h)
    IN  IF ~p.ok THEN Ret(p.ls, Unavailable)
        ELSE IF h = "opfail"
        THEN Ret(p.ls, Failure(createStorageError("Failed to store dataset")))
        ELSE Ret(setItem(p.ls, STORAGE_KEYS.dataset,
                         JSONstringify(JArr(SubSeq(ds.v, 1, Min(1, Len(ds.v)))))),
                 Success(JUndef))

storeDataset(ls, h, ds) ==
    LET p == isLocalStorageAvailable(ls, h)
    IN  IF ~p.ok THEN Ret(p.ls, Unavailable)
        ELSE IF h = "opfail"
        THEN Ret(p.ls, Failure(createStorageError("Failed to store dataset")))
        ELSE Ret(setItem(p.ls, STORAGE_KEYS.dataset, JSONstringify(ds)), Success(JUndef))

\* a variant that removes a dataset slot it cannot parse
getDataset_dropsCorrupt(ls, h) ==
    LET p == isLocalStorageAvailable(ls, h)
        jsonData == getItem(p.ls, STORAGE_KEYS.dataset)
    IN  IF ~p.ok THEN Ret(p.ls, Unavailable)
        ELSE IF Falsy(jsonData)
        THEN Ret(p.ls, Failure(createStorageError("No dataset found in storage")))
        ELSE IF ~safeJsonParse(jsonData.v).success
        THEN Ret(removeItem(p.ls, STORAGE_KEYS.dataset), safeJsonParse(jsonData.v))
        ELSE Ret(p.ls, safeJsonParse(jsonData.v))

getDataset(ls, h) ==
    LET p == isLocalStorageAvailable(ls, h)
        jsonData == getItem(p.ls, STORAGE_KEYS.dataset)
    IN  IF ~p.ok THEN Ret(p.ls, Unavailable)
        ELSE IF Falsy(jsonData)
        THEN Ret(p.ls, Failure(createStorageError("No dataset found in storage")))
        ELSE Ret(p.ls, safeJsonParse(jsonData.v))

\* a variant that writes the index under the timestamp key
storeCurrentIndex_wrongKey(ls, h, index) ==
    LET p == isLocalStorageAvailable(ls, h)
    IN  IF ~p.ok THEN Ret(p.ls, Unavailable)
        ELSE IF h = "opfail"
        THEN Ret(p.ls, Failure(createStorageError("Failed to store current index")))
        ELSE Ret(setItem(p.ls, STORAGE_KEYS.timestamp, NumberToString(index)), Success(JUndef))

\* a variant that probes only while the index slot is absent
storeCurrentIndex_cachedProbe(ls, h, index) ==
    LET p == IF STORAGE_KEYS.index \in DOMAIN ls THEN [ok |-> TRUE, ls |-> ls]
             ELSE isLocalStorageAvailable(ls, h)
    IN  IF ~p.ok THEN Ret(p.ls, Unavailable)
        ELSE IF h = "opfail"
        THEN Ret(p.ls, Failure(createStorageError("Failed to store current index")))
        ELSE Ret(setItem(p.ls, STORAGE_KEYS.index, NumberToString(index)), Success(JUndef))

storeCurrentIndex(ls, h, index) ==
    LET p == isLocalStorageAvailable(ls, h)
    IN  IF ~p.ok THEN Ret(p.ls, Unavailable)
        ELSE IF h = "opfail"
        THEN Ret(p.ls, Failure(createStorageError("Failed to store current index")))
        ELSE Ret(setItem(p.ls, STORAGE_KEYS.index, NumberToString(index)), Success(JUndef))

\* a variant that takes an absent index for the start of the dataset
getCurrentIndex_defaultZero(ls, h) ==
    LET p == isLocalStorageAvailable(ls, h)
        indexString == getItem(p.ls, STORAGE_KEYS.index)
    IN  IF ~p.ok THEN Ret(p.ls, Unavailable)
        ELSE IF indexString.t = "null"
        THEN Ret(p.ls, Success(JNum(0)))
        ELSE LET index == parseInt(indexString.v)
             IN  IF index.t = "nan"
                 THEN Ret(p.ls, Failure(createStorageError("Invalid index format in storage")))
                 ELSE Ret(p.ls, Success(index))

getCurrentIndex(ls, h) ==
    LET p == isLocalStorageAvailable(ls, h)
        indexString == getItem(p.ls, STORAGE_KEYS.index)
    IN  IF ~p.ok THEN Ret(p.ls, Unavailable)
        ELSE IF indexString.t = "null"
        THEN Ret(p.ls, Failure(createStorageError("No index found in storage")))
        ELSE LET index == parseInt(indexString.v)
             IN  IF index.t = "nan"
                 THEN Ret(p.ls, Failure(createStorageError("Invalid index format in storage")))
                 ELSE Ret(p.ls, Success(index))

\* a variant that removes the slot before it writes it
storeTimestamp_clearsFirst(ls, h, timestamp) ==
    LET p == isLocalStorageAvailable(ls, h)
    IN  IF ~p.ok THEN Ret(p.ls, Unavailable)
        ELSE IF h = "opfail"
        THEN Ret(removeItem(p.ls, STORAGE_KEYS.timestamp),
                 Failure(createStorageError("Failed to store timestamp")))
        ELSE Ret(setItem(p.ls, STORAGE_KEYS.timestamp, NumberToString(timestamp)),
                 Success(JUndef))

storeTimestamp(ls, h, timestamp) ==
    LET p == isLocalStorageAvailable(ls, h)
    IN  IF ~p.ok THEN Ret(p.ls, Unavailable)
        ELSE IF h = "opfail"
        THEN Ret(p.ls, Failure(createStorageError("Failed to store timestamp")))
        ELSE Ret(setItem(p.ls, STORAGE_KEYS.timestamp, NumberToString(timestamp)),
                 Success(JUndef))

getTimestamp(ls, h) ==
    LET p == isLocalStorageAvailable(ls, h)
        timestampString == getItem(p.ls, STORAGE_KEYS.timestamp)
    IN  IF ~p.ok THEN Ret(p.ls, Unavailable)
        ELSE IF timestampString.t = "null"
        THEN Ret(p.ls, Failure(createStorageError("No timestamp found in storage")))
        ELSE LET timestamp == parseInt(timestampString.v)
             IN  IF timestamp.t = "nan"
                 THEN Ret(p.ls, Failure(createStorageError("Invalid timestamp format in storage")))
                 ELSE Ret(p.ls, Success(timestamp))

\* the slots clearStorage removes, in its order
ClearOrder == <<STORAGE_KEYS.dataset, STORAGE_KEYS.index, STORAGE_KEYS.timestamp>>

\* the store after the first n removals of clearStorage
RECURSIVE RemoveFirst(_, _)
RemoveFirst(ls, n) ==
    IF n = 0 THEN ls ELSE removeItem(RemoveFirst(ls, n - 1), ClearOrder[n])

\* clearStorage(); with h = "opfail" its removeItem number failAt throws
clearStorage(ls, h, failAt) ==
    LET p == isLocalStorageAvailable(ls, h)
    IN  IF ~p.ok THEN Ret(p.ls, Unavailable)
        ELSE IF h = "opfail"
        THEN Ret(RemoveFirst(p.ls, failAt - 1),
                 Failure(createStorageError("Failed to clear storage")))
        ELSE Ret(RemoveFirst(p.ls, 3), Success(JUndef))

\* a variant that tests the slots for truthiness instead of presence
isAppInitialized_truthy(ls, h) ==
    LET p == isLocalStorageAvailable(ls, h)
        hasDataset == ~Falsy(getItem(p.ls, STORAGE_KEYS.dataset))
        hasIndex == ~Falsy(getItem(p.ls, STORAGE_KEYS.index))
        hasTimestamp == ~Falsy(getItem(p.ls, STORAGE_KEYS.timestamp))
    IN  IF ~p.ok THEN Ret(p.ls, FALSE)
        ELSE Ret(p.ls, hasDataset /\ hasIndex /\ hasTimestamp)

\* isAppInitialized(): res is a boolean
isAppInitialized(ls, h) ==
    LET p == isLocalStorageAvailable(ls, h)
        hasDataset == getItem(p.ls, STORAGE_KEYS.dataset).t # "null"
        hasIndex == getItem(p.ls, STORAGE_KEYS.index).t # "null"
        hasTimestamp == getItem(p.ls, STORAGE_KEYS.timestamp).t # "null"
    IN  IF ~p.ok THEN Ret(p.ls, FALSE)
        ELSE Ret(p.ls, hasDataset /\ hasIndex /\ hasTimestamp)

\* ------------------------------------------------------------------------
\* Application Controller (Home)
\* ------------------------------------------------------------------------
InitialAppState ==
    [currentReading |-> JNull, datasetSize |-> JNum(0), currentIndex |-> JNum(0),
     isInitialized |-> FALSE]

\* the component state of Home after its useState calls
InitialMem ==
    [appState |-> InitialAppState, isLoading |-> TRUE, error |-> JNull,
     dataset |-> JArr(<<>>)]

\* a variant that leaves the loading flag as it is
handleError_keepsLoading(mem, appError) ==
    [mem EXCEPT !.error = [t |-> "message", v |-> appError.message]]

\* the error message shown; the optional details text is left out
handleError(mem, appError) ==
    [mem EXCEPT !.error = [t |-> "message", v |-> appError.message], !.isLoading = FALSE]

\* what a handler leaves: the store, the component state and whether it ran
\* to its end
Left(ls, mem, done) == [ls |-> ls, mem |-> mem, done |-> done]

\* a variant that leaves the index slot as it finds it
initializeApp_noIndexStore(ls, mem, result, h1, h2, h3) ==
    LET m0 == [mem EXCEPT !.isLoading = TRUE, !.error = JNull]
    IN  IF ~result.success \/ Falsy(result.dataset)
        THEN Left(ls, handleError(m0,
                    IF IsUndefined(result.error)
                    THEN AppError("GENERATION_ERROR", "Failed to generate dataset")
                    ELSE result.error), FALSE)
        ELSE
        LET newDataset == result.dataset
            m1 == [m0 EXCEPT !.dataset = newDataset]
            storeResult == storeDataset(ls, h1, newDataset)
        IN  IF ~storeResult.res.success /\ ~IsUndefined(storeResult.res.error)
            THEN Left(storeResult.ls, handleError(m1, storeResult.res.error), FALSE)
            ELSE
            LET initialIndex == JNum(0)
                timestamp == now
                timestampResult == storeTimestamp(storeResult.ls, h3, timestamp)
                firstReading == getReadingAtIndex(newDataset, initialIndex)
            IN  IF ~timestampResult.res.success /\ ~IsUndefined(timestampResult.res.error)
                THEN Left(timestampResult.ls,
                          handleError(m1, timestampResult.res.error), FALSE)
                ELSE IF Falsy(firstReading) \/ ~validateReading(firstReading)
                THEN Left(timestampResult.ls,
                          handleError(m1, AppError("VALIDATION_ERROR",
                                                   "Invalid first reading")), FALSE)
                ELSE Left(timestampResult.ls,
                          [m1 EXCEPT !.appState =
                                [currentReading |-> firstReading,
                                 datasetSize |-> Get(newDataset, Klength),
                                 currentIndex |-> initialIndex,
                                 isInitialized |-> TRUE],
                              !.isLoading = FALSE],
                          TRUE)

\* initializeApp(), given the DatasetResult its generator call returns and the
\* host's behaviour during its three Session Store calls
initializeApp(ls, mem, result, h1, h2, h3) ==
    LET m0 == [mem EXCEPT !.isLoading = TRUE, !.error = JNull]
    IN  IF ~result.success \/ Falsy(result.dataset)
        THEN Left(ls, handleError(m0,
                    IF IsUndefined(result.error)
                    THEN AppError("GENERATION_ERROR", "Failed to generate dataset")
                    ELSE result.error), FALSE)
        ELSE
        LET newDataset == result.dataset
            m1 == [m0 EXCEPT !.dataset = newDataset]
            storeResult == storeDataset(ls, h1, newDataset)
        IN  IF ~storeResult.res.success /\ ~IsUndefined(storeResult.res.error)
            THEN Left(storeResult.ls, handleError(m1, storeResult.res.error), FALSE)
            ELSE
            LET initialIndex == JNum(0)
                timestamp == now
                indexResult == storeCurrentIndex(storeResult.ls, h2, initialIndex.v)
            IN  IF ~indexResult.res.success /\ ~IsUndefined(indexResult.res.error)
                THEN Left(indexResult.ls, handleError(m1, indexResult.res.error), FALSE)
                ELSE
                LET timestampResult == storeTimestamp(indexResult.ls, h3, timestamp)
                    firstReading == getReadingAtIndex(newDataset, initialIndex)
                IN  IF ~timestampResult.res.success /\ ~IsUndefined(timestampResult.res.error)
                    THEN Left(timestampResult.ls,
                              handleError(m1, timestampResult.res.error), FALSE)
                    ELSE IF Falsy(firstReading) \/ ~validateReading(firstReading)
                    THEN Left(timestampResult.ls,
                              handleError(m1, AppError("VALIDATION_ERROR",
                                                       "Invalid first reading")), FALSE)
                    ELSE Left(timestampResult.ls,
                              [m1 EXCEPT !.appState =
                                    [currentReading |-> firstReading,
                                     datasetSize |-> Get(newDataset, Klength),
                                     currentIndex |-> initialIndex,
                                     isInitialized |-> TRUE],
                                  !.isLoading = FALSE],
                              TRUE)

\* loadExistingData(), given the host's behaviour during its two Session
\* Store calls
loadExistingData(ls, mem, h1, h2) ==
    LET m0 == [mem EXCEPT !.isLoading = TRUE, !.error = JNull]
        datasetResult == getDataset(ls, h1)
    IN  IF ~datasetResult.res.success \/ Falsy(datasetResult.res.data)
        THEN Left(datasetResult.ls, handleError(m0,
                    IF IsUndefined(datasetResult.res.error)
                    THEN AppError("STORAGE_ERROR", "Failed to load dataset")
                    ELSE datasetResult.res.error), FALSE)
        ELSE
        LET indexResult == getCurrentIndex(datasetResult.ls, h2)
        IN  IF ~indexResult.res.success \/ IsUndefined(indexResult.res.data)
            THEN Left(indexResult.ls, handleError(m0,
                        IF IsUndefined(indexResult.res.error)
                        THEN AppError("STORAGE_ERROR", "Failed to load index")
                        ELSE indexResult.res.error), FALSE)
            ELSE
            LET loadedDataset == datasetResult.res.data
                currentIndex == indexResult.res.data
                m1 == [m0 EXCEPT !.dataset = loadedDataset]
                currentReading == getReadingAtIndex(loadedDataset, currentIndex)
            IN  IF Falsy(currentReading) \/ ~validateReading(currentReading)
                THEN Left(indexResult.ls,
                          handleError(m1, AppError("VALIDATION_ERROR",
                                                   "Invalid current reading")), FALSE)
                ELSE Left(indexResult.ls,
                          [m1 EXCEPT !.appState =
                                [currentReading |-> currentReading,
                                 datasetSize |-> Get(loadedDataset, Klength),
                                 currentIndex |-> currentIndex,
                                 isInitialized |-> TRUE],
                              !.isLoading = FALSE],
                          TRUE)

\* a variant that stores the cursor it had before the tap
getNextReading_storesOld(ls, mem, h) ==
    IF ~mem.appState.isInitialized \/ IsZero(Get(mem.dataset, Klength))
    THEN [ls |-> ls, mem |-> mem, done |-> FALSE, stored |-> FALSE]
    ELSE
    LET nextIndex == JNum(mem.appState.currentIndex.v + 1)
        nextReading == getReadingAtIndex(mem.dataset, nextIndex)
        storeResult == storeCurrentIndex(ls, h, mem.appState.currentIndex.v)
    IN  IF Falsy(nextReading) \/ ~validateReading(nextReading)
        THEN [ls |-> ls,
              mem |-> handleError(mem, AppError("VALIDATION_ERROR", "Invalid next reading")),
              done |-> FALSE, stored |-> FALSE]
        ELSE [ls |-> storeResult.ls,
              mem |-> [mem EXCEPT !.appState.currentReading = nextReading,
                                  !.appState.currentIndex = nextIndex],
              done |-> TRUE, stored |-> storeResult.res.success]

\* a variant that treats a failed index store as an error and stops
getNextReading_fatalStore(ls, mem, h) ==
    IF ~mem.appState.isInitialized \/ IsZero(Get(mem.dataset, Klength))
    THEN [ls |-> ls, mem |-> mem, done |-> FALSE, stored |-> FALSE]
    ELSE
    LET nextIndex == JNum(mem.appState.currentIndex.v + 1)
        nextReading == getReadingAtIndex(mem.dataset, nextIndex)
        storeResult == storeCurrentIndex(ls, h, nextIndex.v)
    IN  IF Falsy(nextReading) \/ ~validateReading(nextReading)
        THEN [ls |-> ls,
              mem |-> handleError(mem, AppError("VALIDATION_ERROR", "Invalid next reading")),
              done |-> FALSE, stored |-> FALSE]
        ELSE IF ~storeResult.res.success
        THEN [ls |-> storeResult.ls,
              mem |-> handleError(mem, storeResult.res.error),
              done |-> FALSE, stored |-> FALSE]
        ELSE [ls |-> storeResult.ls,
              mem |-> [mem EXCEPT !.appState.currentReading = nextReading,
                                  !.appState.currentIndex = nextIndex],
              done |-> TRUE, stored |-> TRUE]

\* a variant that shows the next reading without validating it
getNextReading_noValidation(ls, mem, h) ==
    IF ~mem.appState.isInitialized \/ IsZero(Get(mem.dataset, Klength))
    THEN [ls |-> ls, mem |-> mem, done |-> FALSE, stored |-> FALSE]
    ELSE
    LET nextIndex == JNum(mem.appState.currentIndex.v + 1)
        nextReading == getReadingAtIndex(mem.dataset, nextIndex)
        storeResult == storeCurrentIndex(ls, h, nextIndex.v)
    IN  [ls |-> storeResult.ls,
         mem |-> [mem EXCEPT !.appState.currentReading = nextReading,
                             !.appState.currentIndex = nextIndex],
         done |-> TRUE, stored |-> storeResult.res.success]

\* getNextReading(), given the host's behaviour during its Session Store
\* call; done says that the cursor advanced, stored that the index was written
getNextReading(ls, mem, h) ==
    IF ~mem.appState.isInitialized \/ IsZero(Get(mem.dataset, Klength))
    THEN [ls |-> ls, mem |-> mem, done |-> FALSE, stored |-> FALSE]
    ELSE
    LET nextIndex == JNum(mem.appState.currentIndex.v + 1)
        nextReading == getReadingAtIndex(mem.dataset, nextIndex)
        storeResult == storeCurrentIndex(ls, h, nextIndex.v)
    IN  IF Falsy(nextReading) \/ ~validateReading(nextReading)
        THEN [ls |-> ls,
              mem |-> handleError(mem, AppError("VALIDATION_ERROR", "Invalid next reading")),
              done |-> FALSE, stored |-> FALSE]
        ELSE [ls |-> storeResult.ls,
              mem |-> [mem EXCEPT !.appState.currentReading = nextReading,
                                  !.appState.currentIndex = nextIndex],
              done |-> TRUE, stored |-> storeResult.res.success]

\* resetApp(): clearStorage(), whose result is dropped, the component state
\* set back, then initializeApp()
resetApp(ls, mem, hc, failAt, result, h1, h2, h3) ==
    LET cleared == clearStorage(ls, hc, failAt)
        m0 == [mem EXCEPT !.appState = InitialAppState, !.dataset = JArr(<<>>),
                          !.error = JNull]
    IN  initializeApp(cleared.ls, m0, result, h1, h2, h3)

\* ------------------------------------------------------------------------
\* The controller in a browser
\* ------------------------------------------------------------------------
\* the scaled-down configuration of the controller: systolic 3..MaxSys,
\* diastolic 1..MaxSys-2, pulse pressure exactly 2; its admissible pairs are
\* the (s, s-2)
Configs == {Config(Range(3, MaxSys), Range(1, MaxSys - 2), Range(2, 2))}

\* what the three slots may hold when the page is first opened: nothing, the
\* slots of an earlier session, or text written by something else
DatasetTexts ==
    { <<"x">>, <<"{", "}">>,
      JSONstringify(JArr(<<BloodPressureReading(3, 1, 5), BloodPressureReading(9, 1, 1005)>>)) }
IndexTexts == { <<"0">>, <<"-", "1">>, <<"x">> }
TimestampTexts == { <<"7">> }

InitialStores ==
    { ls \in UNION { [ks -> DatasetTexts \cup IndexTexts \cup TimestampTexts] :
                        ks \in SUBSET {STORAGE_KEYS.dataset, STORAGE_KEYS.index,
                                       STORAGE_KEYS.timestamp} } :
        /\ STORAGE_KEYS.dataset \in DOMAIN ls => ls[STORAGE_KEYS.dataset] \in DatasetTexts
        /\ STORAGE_KEYS.index \in DOMAIN ls => ls[STORAGE_KEYS.index] \in IndexTexts
        /\ STORAGE_KEYS.timestamp \in DOMAIN ls => ls[STORAGE_KEYS.timestamp] \in TimestampTexts }

NothingWritten == [dataset |-> JNull, index |-> JNull, timestamp |-> JNull]

Init ==
    /\ CONFIG \in Configs
    /\ now = 1
    /\ localStorage \in InitialStores
    /\ appState = InitialMem.appState
    /\ isLoading = InitialMem.isLoading
    /\ error = InitialMem.error
    /\ dataset = InitialMem.dataset
    /\ mounted = FALSE
    /\ taps = -1
    /\ generated = JNull
    /\ shown = <<>>
    /\ written = NothingWritten
    /\ obs = [op |-> "none"]

Mem == [appState |-> appState, isLoading |-> isLoading, error |-> error, dataset |-> dataset]

\* the variables of Home take the component state a handler leaves
Render(mem) ==
    /\ appState' = mem.appState
    /\ isLoading' = mem.isLoading
    /\ error' = mem.error
    /\ dataset' = mem.dataset

\* The host's behaviour during the successive Session Store calls of one
\* handler: a call after a failed one is not reached in initializeApp and
\* loadExistingData, so its behaviour is fixed to "ok"
HostRuns(n, H) ==
    { hs \in [1..n -> H] : \A i \in 1..n, j \in 1..n : (i < j /\ hs[i] # "ok") => hs[j] = "ok" }

AllOk(hs) == \A i \in DOMAIN hs : hs[i] = "ok"

\* The page is opened or reloaded: Home is constructed and its mount effect
\* runs initialize(), which restores the stored session or starts a new one.
PageLoad ==
    /\ \E h0 \in PageReadHost :
        \E a \in {isAppInitialized(localStorage, h0)} :
            IF a.res
            THEN \E hs \in HostRuns(2, PageReadHost) :
                 \E r \in {loadExistingData(a.ls, InitialMem, hs[1], hs[2])} :
                    /\ Render(r.mem)
                    /\ localStorage' = r.ls
                    /\ obs' = [op |-> "pageload", path |-> "load", done |-> r.done,
                               allOk |-> h0 = "ok" /\ AllOk(hs)]
                    /\ shown' = <<>>
                    /\ UNCHANGED <<taps, generated>>
            ELSE \E result \in generateBloodPressureDataset, hs \in HostRuns(3, PageWriteHost) :
                 \E r \in {initializeApp(a.ls, InitialMem, result, hs[1], hs[2], hs[3])} :
                    /\ Render(r.mem)
                    /\ localStorage' = r.ls
                    /\ obs' = [op |-> "pageload", path |-> "init", done |-> r.done,
                               allOk |-> h0 = "ok" /\ AllOk(hs)]
                    /\ taps' = IF r.done THEN 0 ELSE -1
                    /\ shown' = IF r.done THEN <<r.mem.appState.currentReading>> ELSE <<>>
                    /\ generated' = IF result.success THEN result.dataset ELSE generated
    /\ mounted' = TRUE
    /\ UNCHANGED <<CONFIG, now, written>>

\* The user taps the display (or its Try Again button): onTap is getNextReading.
Tap ==
    /\ mounted
    /\ appState.currentIndex.v < MaxTaps
    /\ \E h \in PageWriteHost :
       \E r \in {getNextReading(localStorage, Mem, h)} :
            /\ Render(r.mem)
            /\ localStorage' = r.ls
            /\ obs' = [op |-> "tap", done |-> r.done, h |-> h]
            /\ taps' = IF ~appState.isInitialized THEN taps
                       ELSE IF taps >= 0 /\ r.done /\ r.stored THEN taps + 1
                       ELSE -1
            /\ shown' = IF r.done /\ shown # <<>>
                        THEN Append(shown, r.mem.appState.currentReading)
                        ELSE shown
    /\ UNCHANGED <<CONFIG, now, mounted, generated, written>>

\* The host's behaviour during the four Session Store calls of one resetApp():
\* at most one of them fails, or the host is down from the first to the last
\* (initializeApp stops at its first failed call)
ResetRuns ==
    { hs \in [1..4 -> PageWriteHost] :
        \/ \A i \in 1..4, j \in 1..4 : (i # j /\ hs[i] # "ok") => hs[j] = "ok"
        \/ hs = <<"nowindow", "nowindow", "ok", "ok">> }

\* resetApp() is called (no element of the page is wired to it).
Reset ==
    /\ mounted
    /\ \E hs \in ResetRuns, failAt \in 1..3, result \in generateBloodPressureDataset :
        /\ hs[1] # "opfail" => failAt = 1
        /\ \E r \in {resetApp(localStorage, Mem, hs[1], failAt, result, hs[2], hs[3], hs[4])} :
               /\ Render(r.mem)
               /\ localStorage' = r.ls
               /\ obs' = [op |-> "reset", done |-> r.done, allOk |-> AllOk(hs),
                          from |-> appState.currentIndex]
               /\ taps' = IF r.done THEN 0 ELSE -1
               /\ shown' = IF r.done THEN <<r.mem.appState.currentReading>> ELSE <<>>
               /\ generated' = IF result.success THEN result.dataset ELSE generated
    /\ UNCHANGED <<CONFIG, now, mounted, written>>

\* Time passes.
Tick ==
    /\ now < MaxClock
    /\ now' = now + 1
    /\ UNCHANGED <<CONFIG, localStorage, appState, isLoading, error, dataset, mounted,
                   taps, generated, shown, written, obs>>

Next == PageLoad \/ Tap \/ Tick

\* the page as it is served: nothing calls resetApp
Spec == Init /\ [][Next]_vars

\* The page is opened: React runs the mount effect of Home once.
Mount == ~mounted /\ PageLoad

\* the page with a control wired to resetApp: it is opened once, then tapped
\* and reset, the clock standing still
NextReset == Mount \/ Tap \/ Reset
SpecReset == Init /\ [][NextReset]_vars

\* ------------------------------------------------------------------------
\* The Session Store called directly
\* ------------------------------------------------------------------------
EmptyStore == [k \in {} |-> <<>>]

\* the state before anything has run, with nothing in the host store
Blank ==
    /\ localStorage = EmptyStore
    /\ appState = InitialMem.appState
    /\ isLoading = InitialMem.isLoading
    /\ error = InitialMem.error
    /\ dataset = InitialMem.dataset
    /\ mounted = FALSE
    /\ taps = -1
    /\ generated = JNull
    /\ shown = <<>>
    /\ written = NothingWritten
    /\ obs = [op |-> "none"]

StoreInit ==
    /\ CONFIG \in Configs
    /\ now = 1
    /\ Blank

\* the datasets storeDataset is given: sequences of valid readings
StoreDatasets ==
    { JArr(<<>>),
      JArr(<<BloodPressureReading(3, 1, 1)>>),
      JArr(<<BloodPressureReading(4, 2, 1001), BloodPressureReading(3, 1, 1)>>),
      JArr(<<BloodPressureReading(3, 1, 1), BloodPressureReading(3, 1, 1)>>) }
\* the indices storeCurrentIndex is given
IndexInputs == {0 - MaxIdx, -1, 0, 5, MaxIdx}
\* text something else than the Session Store writes into a slot
DirectTexts == { <<>>, <<"x">>, <<"5", "x">>, <<"{", "}">> }

SlotOf == [dataset |-> STORAGE_KEYS.dataset, index |-> STORAGE_KEYS.index,
           timestamp |-> STORAGE_KEYS.timestamp]
Slots == {"dataset", "index", "timestamp"}

\* the history of the slots after a call: a slot that is no longer present
\* has no written value
Forget(w, ls) == [sl \in Slots |-> IF SlotOf[sl] \in DOMAIN ls THEN w[sl] ELSE JNull]

StoreFrame == UNCHANGED <<CONFIG, now, appState, isLoading, error, dataset, mounted,
                          taps, generated, shown>>

StoreDataset ==
    /\ \E ds \in StoreDatasets, h \in WriteHost :
       \E r \in {storeDataset(localStorage, h, ds)} :
            /\ localStorage' = r.ls
            /\ written' = IF r.res.success THEN [written EXCEPT !.dataset = ds] ELSE written
            /\ obs' = [op |-> "storeDataset", h |-> h, res |-> r.res]
    /\ StoreFrame

GetDataset ==
    /\ \E h \in ReadHost :
       \E r \in {getDataset(localStorage, h)} :
            /\ localStorage' = r.ls
            /\ obs' = [op |-> "getDataset", h |-> h, res |-> r.res]
    /\ UNCHANGED written
    /\ StoreFrame

StoreCurrentIndex ==
    /\ \E index \in IndexInputs, h \in WriteHost :
       \E r \in {storeCurrentIndex(localStorage, h, index)} :
            /\ localStorage' = r.ls
            /\ written' = IF r.res.success THEN [written EXCEPT !.index = JNum(index)]
                          ELSE written
            /\ obs' = [op |-> "storeCurrentIndex", h |-> h, res |-> r.res]
    /\ StoreFrame

GetCurrentIndex ==
    /\ \E h \in ReadHost :
       \E r \in {getCurrentIndex(localStorage, h)} :
            /\ localStorage' = r.ls
            /\ obs' = [op |-> "getCurrentIndex", h |-> h, res |-> r.res]
    /\ UNCHANGED written
    /\ StoreFrame

StoreTimestamp ==
    /\ \E timestamp \in 1..MaxClock, h \in WriteHost :
       \E r \in {storeTimestamp(localStorage, h, timestamp)} :
            /\ localStorage' = r.ls
            /\ written' = IF r.res.success THEN [written EXCEPT !.timestamp = JNum(timestamp)]
                          ELSE written
            /\ obs' = [op |-> "storeTimestamp", h |-> h, res |-> r.res]
    /\ StoreFrame

GetTimestamp ==
    /\ \E h \in ReadHost :
       \E r \in {getTimestamp(localStorage, h)} :
            /\ localStorage' = r.ls
            /\ obs' = [op |-> "getTimestamp", h |-> h, res |-> r.res]
    /\ UNCHANGED written
    /\ StoreFrame

ClearStorage ==
    /\ \E h \in WriteHost, failAt \in 1..3 :
        /\ h # "opfail" => failAt = 1
        /\ \E r \in {clearStorage(localStorage, h, failAt)} :
            /\ localStorage' = r.ls
            /\ written' = Forget(written, r.ls)
            /\ obs' = [op |-> "clearStorage", h |-> h, failAt |-> failAt, res |-> r.res]
    /\ StoreFrame

IsAppInitialized ==
    /\ \E h \in ReadHost :
       \E r \in {isAppInitialized(localStorage, h)} :
            /\ localStorage' = r.ls
            /\ obs' = [op |-> "isAppInitialized", h |-> h, res |-> r.res]
    /\ UNCHANGED written
    /\ StoreFrame

\* Something else writes text into a slot (the user's developer tools,
\* another script of the origin).
DirectWrite ==
    /\ \E sl \in Slots, text \in DirectTexts :
            /\ localStorage' = setItem(localStorage, SlotOf[sl], text)
            /\ written' = [written EXCEPT ![sl] = JNull]
            /\ obs' = [op |-> "directWrite", slot |-> sl]
    /\ StoreFrame

\* Something else removes a slot.
DirectRemove ==
    /\ \E sl \in Slots :
            /\ SlotOf[sl] \in DOMAIN localStorage
            /\ localStorage' = removeItem(localStorage, SlotOf[sl])
            /\ written' = [written EXCEPT ![sl] = JNull]
            /\ obs' = [op |-> "directRemove", slot |-> sl]
    /\ StoreFrame

StoreNext ==
    \/ StoreDataset \/ GetDataset
    \/ StoreCurrentIndex \/ GetCurrentIndex
    \/ StoreTimestamp \/ GetTimestamp
    \/ ClearStorage \/ IsAppInitialized
    \/ DirectWrite \/ DirectRemove

SpecStore == StoreInit /\ [][StoreNext]_vars

\* ------------------------------------------------------------------------
\* The Dataset Engine called directly
\* ------------------------------------------------------------------------
\* configurations around the scaled-down one: systolic 3..b, diastolic 1..2
\* and four pulse-pressure ranges, one of them empty
EngineConfigs ==
    { Config(Range(3, b), Range(1, 2), p) :
        b \in 2..MaxSys, p \in {Range(1, 3), Range(2, 3), Range(2, 2), Range(3, 2)} }

EngineInit ==
    /\ CONFIG \in EngineConfigs
    /\ now \in 1..MaxClock
    /\ Blank

EngineFrame == UNCHANGED <<CONFIG, now, localStorage, appState, isLoading, error, dataset,
                           mounted, taps, shown, written>>

Generate ==
    /\ \E result \in generateBloodPressureDataset :
            /\ generated' = IF result.success THEN result.dataset ELSE generated
            /\ obs' = [op |-> "generate", res |-> result]
    /\ EngineFrame

ReadingAt ==
    /\ \E ds \in {JArr(<<>>)} \cup (IF generated = JNull THEN {} ELSE {generated}),
          index \in (0 - MaxIndex)..MaxIndex :
            obs' = [op |-> "getReadingAtIndex", ds |-> ds, index |-> index,
                    res |-> getReadingAtIndex(ds, JNum(index))]
    /\ UNCHANGED generated
    /\ EngineFrame

EngineNext == Generate \/ ReadingAt

SpecEngine == EngineInit /\ [][EngineNext]_vars

\* ------------------------------------------------------------------------
\* Properties
\* ------------------------------------------------------------------------
\* the step is a page load, a tap (every other step of Next leaves obs alone
\* and moves the clock)
PageLoadStep == obs'.op = "pageload" /\ now' = now
TapStep == obs'.op = "tap" /\ now' = now

\* the admissible (systolic, diastolic) pairs, from the configuration alone
Admissible ==
    { sd \in (CONFIG.systolic.min..CONFIG.systolic.max)
              \X (CONFIG.diastolic.min..CONFIG.diastolic.max) :
        /\ sd[1] - sd[2] >= CONFIG.pulsePresssure.min
        /\ sd[1] - sd[2] <= CONFIG.pulsePresssure.max }

PairOf(reading) == <<Get(reading, Ksystolic).v, Get(reading, Kdiastolic).v>>

\* the elements of a sequence
Elems(seq) == {seq[i] : i \in 1..Len(seq)}

\* C1: a page reload after a fresh initialization and n taps, all written,
\* with the host available: the stored session is loaded, the cursor is n,
\* the dataset is the generated one, the reading shown is its element
\* n mod len, nothing is generated and no slot changes.
C1_ReloadRestoresSession ==
    [][(PageLoadStep /\ obs'.allOk /\ taps >= 0) =>
          /\ obs'.path = "load"
          /\ obs'.done
          /\ appState'.isInitialized
          /\ appState'.currentIndex = JNum(taps)
          /\ dataset' = generated
          /\ appState'.currentReading = generated.v[(taps % Len(generated.v)) + 1]
          /\ error' = JNull
          /\ generated' = generated
          /\ localStorage' = localStorage]_vars

\* a reload restored a session whose cursor had gone once around the dataset
C1_Witness ==
    /\ obs.op = "pageload" /\ obs.path = "load" /\ obs.done /\ obs.allOk
    /\ taps = MaxTaps
    /\ taps > Len(generated.v)
    /\ appState.currentIndex = JNum(taps)
    /\ dataset = generated

RestoreFailed ==
    obs.op = "pageload" /\ obs.path = "load" /\ obs.allOk /\ ~obs.done
\* the session runs on a freshly generated dataset at cursor 0
Recovered ==
    /\ appState.isInitialized
    /\ error = JNull
    /\ appState.currentIndex = JNum(0)
    /\ generated # JNull
    /\ dataset = generated

\* C3: a startup that finds the three slots and cannot restore the session
\* from them ends with the controller running on a freshly generated dataset
\* at cursor 0. (initialize() runs in one piece and schedules nothing after
\* it, so the state it leaves is the state the controller stays in.)
C3_RecoversFromRestoreFailure == RestoreFailed => Recovered

\* C4: a successful generateBloodPressureDataset() returns each admissible
\* pair exactly once and nothing else, as many readings as
\* calculateExpectedCombinations() counts, and the same readings as the
\* enumeration it shuffled.
C4_GeneratedIsPermutation ==
    (obs.op = "generate" /\ obs.res.success) =>
        LET ds == obs.res.dataset.v
            all == generateAllCombinations
        IN  /\ Len(ds) = Cardinality(Admissible)
            /\ {PairOf(ds[i]) : i \in 1..Len(ds)} = Admissible
            /\ Len(ds) = calculateExpectedCombinations
            /\ Len(ds) = Len(all)
            /\ Elems(ds) = Elems(all)

\* a generation returned four readings in another order than enumerated
C4_Witness ==
    /\ obs.op = "generate" /\ obs.res.success
    /\ Len(obs.res.dataset.v) = 4
    /\ obs.res.dataset.v # generateAllCombinations

\* C5: the readings shown from a fresh generation on, up to as many as the
\* dataset has, have pairwise distinct pairs, and once that many are shown
\* they are all the admissible pairs.
C5_NoDuplicateInFirstCycle ==
    shown # <<>> =>
        LET n == Len(generated.v)
            m == Min(Len(shown), n)
        IN  /\ \A i, j \in 1..m : i # j => PairOf(shown[i]) # PairOf(shown[j])
            /\ Len(shown) >= n => { PairOf(shown[i]) : i \in 1..n } = Admissible

\* the whole dataset has been shown and the first reading is shown again
C5_Witness ==
    /\ shown # <<>>
    /\ Len(generated.v) >= 2
    /\ Len(shown) = Len(generated.v) + 1
    /\ shown[Len(shown)] = shown[1]

\* C6: getReadingAtIndex(dataset, i) is getReadingAtIndex(dataset,
\* i + k*len(dataset)) for every integer k, negative ones included.
C6_PeriodicInLength ==
    obs.op = "getReadingAtIndex" =>
        \A k \in (0 - MaxPeriods)..MaxPeriods :
            getReadingAtIndex(obs.ds, JNum(obs.index + k * Len(obs.ds.v))) = obs.res

\* C7: getReadingAtIndex returns null exactly for the empty dataset, and for
\* a non-empty one the element at the non-negative residue of the index
\* modulo the length, for negative indices too.
C7_NonNegativeResidue ==
    obs.op = "getReadingAtIndex" =>
        IF Len(obs.ds.v) = 0 THEN obs.res = JNull
        ELSE obs.res = obs.ds.v[(obs.index % Len(obs.ds.v)) + 1]

AllSlotsPresent == \A sl \in Slots : SlotOf[sl] \in DOMAIN localStorage

\* C8: with the host available, isAppInitialized() is true exactly when the
\* dataset, index and timestamp slots are all present, whatever they hold
\* and however they came to be present or absent.
C8_InitializedIffAllSlots ==
    (obs.op = "isAppInitialized" /\ obs.h = "ok") => (obs.res <=> AllSlotsPresent)

\* isAppInitialized() returned true with index and timestamp stored by the
\* Session Store and the empty text in the dataset slot
C8_Witness ==
    /\ obs.op = "isAppInitialized" /\ obs.h = "ok" /\ obs.res
    /\ written.index.t = "num" /\ written.timestamp.t = "num"
    /\ localStorage[STORAGE_KEYS.dataset] = <<>>

\* C9: with the host available, getDataset() after a successful
\* storeDataset(d), with no other write to the dataset slot in between,
\* succeeds with a dataset equal to d, field for field and in order.
C9_DatasetRoundTrip ==
    (obs.op = "getDataset" /\ obs.h = "ok" /\ written.dataset.t = "arr") =>
        /\ obs.res.success
        /\ obs.res.data = written.dataset

\* getDataset() returned a stored dataset of two readings
C9_Witness ==
    /\ obs.op = "getDataset" /\ obs.h = "ok" /\ obs.res.success
    /\ written.dataset.t = "arr"
    /\ Len(written.dataset.v) = 2
    /\ obs.res.data.v[1] = BloodPressureReading(4, 2, 1001)

\* C10: with the host available, getCurrentIndex() after a successful
\* storeCurrentIndex(n), with no other write to the index slot in between,
\* succeeds with n, the n of the most recent successful store.
C10_IndexRoundTrip ==
    (obs.op = "getCurrentIndex" /\ obs.h = "ok" /\ written.index.t = "num") =>
        /\ obs.res.success
        /\ obs.res.data = written.index

\* getCurrentIndex() returned a stored negative index of two digits
C10_Witness ==
    /\ obs.op = "getCurrentIndex" /\ obs.h = "ok" /\ obs.res.success
    /\ written.index = JNum(0 - MaxIdx)
    /\ obs.res.data.v < -9

\* the result is a failure of kind STORAGE_ERROR
StorageError(res) == ~res.success /\ res.error.type = "STORAGE_ERROR"

\* the text is what storeCurrentIndex writes for some integer: an optional
\* minus sign and one or more decimal digits, nothing else
DecimalInteger(txt) ==
    LET digits == IF Len(txt) > 0 /\ txt[1] = "-" THEN Tail(txt) ELSE txt
    IN  /\ Len(digits) > 0
        /\ \A i \in 1..Len(digits) : IsDigit(digits[i])

\* C11: with the host available, getCurrentIndex() fails with STORAGE_ERROR
\* whenever the index slot holds text that is not a decimal integer.
C11_CorruptIndexFails ==
    ( /\ obs.op = "getCurrentIndex" /\ obs.h = "ok"
      /\ STORAGE_KEYS.index \in DOMAIN localStorage
      /\ ~DecimalInteger(localStorage[STORAGE_KEYS.index]) )
    => StorageError(obs.res)

\* C12: getCurrentIndex() fails with STORAGE_ERROR whenever the index slot is
\* absent, whatever the other two slots hold.
C12_AbsentIndexFails ==
    (obs.op = "getCurrentIndex" /\ STORAGE_KEYS.index \notin DOMAIN localStorage)
    => StorageError(obs.res)

\* getCurrentIndex() was called on an available host with the dataset and
\* timestamp slots stored and no index slot
C12_Witness ==
    /\ obs.op = "getCurrentIndex" /\ obs.h = "ok"
    /\ STORAGE_KEYS.index \notin DOMAIN localStorage
    /\ written.dataset.t = "arr" /\ written.timestamp.t = "num"
    /\ obs.res.error.message = "No index found in storage"

\* the value is an array of readings: objects with numeric systolic,
\* diastolic and timestamp
IsReadingArray(x) ==
    /\ x.t = "arr"
    /\ \A i \in 1..Len(x.v) :
        /\ x.v[i].t = "obj"
        /\ \A key \in {Ksystolic, Kdiastolic, Ktimestamp} : Get(x.v[i], key).t = "num"

\* the text parses as JSON to an array of readings
ExpectedShape(txt) ==
    LET r == JSONparse(txt) IN r.ok /\ IsReadingArray(r.val)

\* C13: with the host available, getDataset() fails with the STORAGE_ERROR
\* 'Failed to parse JSON data' whenever the dataset slot is present and its
\* text does not parse to an array of readings, and a success carries such an
\* array.
C13_MalformedDatasetFails ==
    ( /\ obs.op = "getDataset" /\ obs.h = "ok"
      /\ STORAGE_KEYS.dataset \in DOMAIN localStorage )
    => /\ obs.res.success => IsReadingArray(obs.res.data)
       /\ ~ExpectedShape(localStorage[STORAGE_KEYS.dataset]) =>
            /\ StorageError(obs.res)
            /\ obs.res.error.message = "Failed to parse JSON data"

\* the operations of the Session Store that return a StorageResult
WriteOps == {"storeDataset", "storeCurrentIndex", "storeTimestamp"}
StoreOps == WriteOps \cup {"getDataset", "getCurrentIndex", "getTimestamp", "clearStorage"}
\* the host behaviours in which the probe answers false
DownHost == {"nowindow", "delfail"}

\* the three slots of a host store
SlotsOf(ls) ==
    [k \in DOMAIN ls \cap {STORAGE_KEYS.dataset, STORAGE_KEYS.index, STORAGE_KEYS.timestamp}
        |-> ls[k]]

\* the result is the failure every operation returns when the probe fails
UnavailableFailure(res) ==
    StorageError(res) /\ res.error.message = "localStorage is not available"

\* C14: a call made while the probe fails (no window, or its write or delete
\* throws) returns the STORAGE_ERROR 'localStorage is not available', false
\* for isAppInitialized(), and leaves the three slots as they were.
C14_UnavailableFailsUntouched ==
    [][(obs'.op \in StoreOps \cup {"isAppInitialized"} /\ obs'.h \in DownHost) =>
        /\ IF obs'.op = "isAppInitialized" THEN obs'.res = FALSE
           ELSE UnavailableFailure(obs'.res)
        /\ SlotsOf(localStorage') = SlotsOf(localStorage)]_vars

\* clearStorage() was called while the probe's delete failed, and the three
\* slots are still present
C14_Witness ==
    /\ obs.op = "clearStorage" /\ obs.h = "delfail"
    /\ ~obs.res.success
    /\ AllSlotsPresent

\* C15: whatever the calls before it met, a call fails as unavailable exactly
\* when the probe fails during the call itself, and a store call made while
\* the host works succeeds.
C15_ProbeNotCached ==
    obs.op \in StoreOps =>
        /\ UnavailableFailure(obs.res) <=> obs.h \in DownHost
        /\ (obs.op \in WriteOps /\ obs.h = "ok") => obs.res.success

\* storeCurrentIndex failed as unavailable after an earlier storeCurrentIndex
\* had succeeded
C15_Witness ==
    /\ obs.op = "storeCurrentIndex" /\ obs.h = "nowindow"
    /\ UnavailableFailure(obs.res)
    /\ written.index.t = "num"

\* C16: a store call whose probe succeeds and whose own write throws returns
\* a failure of kind STORAGE_ERROR and leaves the three slots as they were.
C16_WriteFailureTagged ==
    [][(obs'.op \in WriteOps /\ obs'.h = "opfail") =>
        /\ StorageError(obs'.res)
        /\ SlotsOf(localStorage') = SlotsOf(localStorage)]_vars

\* storeTimestamp failed in its write with the three slots stored before
C16_Witness ==
    /\ obs.op = "storeTimestamp" /\ obs.h = "opfail"
    /\ ~obs.res.success
    /\ written.dataset.t = "arr" /\ written.index.t = "num" /\ written.timestamp.t = "num"

\* C17: after clearStorage() on a host whose probe succeeds, every slot whose
\* deletion did not throw is absent (the deletions after a failed one are
\* still made), a failed deletion is reported as a failure, and when none
\* fails the three slots are absent.
C17_ClearAttemptsAll ==
    (obs.op = "clearStorage" /\ obs.h \in {"ok", "opfail"}) =>
        /\ \A n \in 1..3 :
            \/ obs.h = "opfail" /\ n = obs.failAt
            \/ ClearOrder[n] \notin DOMAIN localStorage
        /\ obs.res.success <=> obs.h = "ok"

\* the reading a tap moves to
NextReading == getReadingAtIndex(dataset, JNum(appState.currentIndex.v + 1))

\* the step is a tap that reaches storeCurrentIndex on a host where the call
\* fails: the session is initialized, the dataset not empty, the next reading
\* valid, and the probe or the write fails
StoreFailingTap ==
    /\ TapStep
    /\ appState.isInitialized
    /\ ~IsZero(Get(dataset, Klength))
    /\ ~Falsy(NextReading) /\ validateReading(NextReading)
    /\ obs'.h \in {"nowindow", "opfail"}

\* C18: a tap whose storeCurrentIndex fails still advances the in-memory
\* cursor by 1 and shows the next reading, stays initialized without an error
\* message, and leaves the three slots as they were.
C18_IndexStoreFailureNonFatal ==
    [][StoreFailingTap =>
        /\ appState'.currentIndex = JNum(appState.currentIndex.v + 1)
        /\ appState'.currentReading = NextReading
        /\ appState'.isInitialized
        /\ error' = JNull
        /\ dataset' = dataset
        /\ SlotsOf(localStorage') = SlotsOf(localStorage)]_vars

\* two taps after a fresh start both failed to store the index: the cursor is
\* 2 and the index slot still holds 0
C18_Witness ==
    /\ obs.op = "tap" /\ obs.h = "nowindow" /\ obs.done
    /\ appState.currentIndex = JNum(2)
    /\ error = JNull
    /\ STORAGE_KEYS.index \in DOMAIN localStorage
    /\ localStorage[STORAGE_KEYS.index] = <<"0">>

\* the last operation was an initializeApp(), at startup or in resetApp(),
\* that ran to its end
InitializeAppCompleted ==
    /\ \/ obs.op = "pageload" /\ obs.path = "init"
       \/ obs.op = "reset"
    /\ obs.done

\* C19: when initializeApp() has run to its end, at startup or in resetApp(),
\* the in-memory cursor is 0, the index slot holds 0, the dataset slot holds
\* the dataset just generated, which is the in-memory dataset, and the
\* reading shown is its element 0.
C19_CursorResetOnGeneration ==
    InitializeAppCompleted =>
        /\ appState.isInitialized
        /\ appState.currentIndex = JNum(0)
        /\ STORAGE_KEYS.index \in DOMAIN localStorage
        /\ localStorage[STORAGE_KEYS.index] = <<"0">>
        /\ STORAGE_KEYS.dataset \in DOMAIN localStorage
        /\ localStorage[STORAGE_KEYS.dataset] = JSONstringify(generated)
        /\ dataset = generated
        /\ appState.currentReading = generated.v[1]

\* resetApp() ran to its end on a session that had been tapped forward: the
\* cursor and the index slot are back at 0
C19_Witness ==
    /\ obs.op = "reset" /\ obs.done
    /\ obs.from = JNum(2)
    /\ appState.currentIndex = JNum(0)
    /\ localStorage[STORAGE_KEYS.index] = <<"0">>
    /\ appState.currentReading = generated.v[1]

\* C20: after initializeApp() has run to its end and through the taps that
\* follow it, the index slot holds a position of the generated dataset:
\* 0 <= index <= len - 1.
C20_PersistedIndexInRange ==
    taps >= 0 =>
        /\ STORAGE_KEYS.index \in DOMAIN localStorage
        /\ DecimalInteger(localStorage[STORAGE_KEYS.index])
        /\ parseInt(localStorage[STORAGE_KEYS.index]).v >= 0
        /\ parseInt(localStorage[STORAGE_KEYS.index]).v <= Len(generated.v) - 1

\* C21: when no (systolic, diastolic) pair of the configured ranges satisfies
\* the pulse-pressure constraint, generateBloodPressureDataset() fails with a
\* GENERATION_ERROR.
C21_EmptySpaceFails ==
    (obs.op = "generate" /\ Admissible = {}) =>
        /\ ~obs.res.success
        /\ obs.res.error.type = "GENERATION_ERROR"

\* ------------------------------------------------------------------------
\* The configuration handed to a caller
\* ------------------------------------------------------------------------
\* getConfig(): the object { ...CONFIG }. The spread makes a new object whose
\* three properties hold the range objects of CONFIG themselves: a property
\* of the result is [ref |-> k], the range object CONFIG[k], until the caller
\* assigns it an object of its own, [own |-> that object].
getConfig == [k \in DOMAIN CONFIG |-> [ref |-> k]]

\* the range object a property of the caller's object holds
Deref(held) == IF "ref" \in DOMAIN held THEN CONFIG[held.ref] ELSE held.own

\* the number a caller writes into the object it was handed
MutValues == {MaxSys + 1}

\* validateReading is given null, undefined, objects without systolic or
\* without diastolic, a reading whose systolic is NaN,
\* and readings around the bounds of the three ranges and at the two corners
\* where the pulse-pressure bounds meet the diastolic bounds
ValidateInputs ==
    LET S == {CONFIG.systolic.min - 1, CONFIG.systolic.min,
              CONFIG.systolic.max, CONFIG.systolic.max + 1,
              CONFIG.diastolic.min + CONFIG.pulsePresssure.max,
              CONFIG.diastolic.max + CONFIG.pulsePresssure.min}
        D(s) == {CONFIG.diastolic.min - 1, CONFIG.diastolic.min,
                 CONFIG.diastolic.max, CONFIG.diastolic.max + 1,
                 s - CONFIG.pulsePresssure.min, s - CONFIG.pulsePresssure.min + 1,
                 s - CONFIG.pulsePresssure.max, s - CONFIG.pulsePresssure.max - 1}
    IN  {JNull, JUndef, JObj(<<>>),
         JObj(<< <<Ksystolic, JNum(CONFIG.systolic.min)>> >>),
         JObj(<< <<Kdiastolic, JNum(CONFIG.diastolic.max)>> >>),
         JObj(<< <<Ksystolic, JNaN>>, <<Kdiastolic, JNum(CONFIG.diastolic.min)>> >>)}
        \cup UNION { {BloodPressureReading(s, d, now) : d \in D(s)} : s \in S }

ConfigInit ==
    /\ CONFIG \in Configs
    /\ now = 1
    /\ Blank

ConfigFrame == UNCHANGED <<now, localStorage, appState, isLoading, error, dataset, mounted,
                           taps, generated, shown, written>>

\* A caller calls getConfig() and keeps the object.
GetConfig ==
    /\ obs' = [op |-> "getConfig", res |-> getConfig]
    /\ UNCHANGED CONFIG
    /\ ConfigFrame

\* The caller assigns a property of its object: c.systolic = { min, max }.
SetProperty ==
    /\ obs.op \in {"getConfig", "mutate"}
    /\ \E k \in DOMAIN obs.res, a \in MutValues, b \in MutValues :
            obs' = [op |-> "mutate",
                    res |-> [obs.res EXCEPT ![k] = [own |-> Range(a, b)]]]
    /\ UNCHANGED CONFIG
    /\ ConfigFrame

\* The caller assigns a bound of a range of its object: c.systolic.min = v.
\* The write goes to the object the property holds.
SetBound ==
    /\ obs.op \in {"getConfig", "mutate"}
    /\ \E k \in DOMAIN obs.res, f \in {"min", "max"}, v \in MutValues :
            IF "ref" \in DOMAIN obs.res[k]
            THEN /\ CONFIG' = [CONFIG EXCEPT ![obs.res[k].ref][f] = v]
                 /\ obs' = [op |-> "mutate", res |-> obs.res]
            ELSE /\ CONFIG' = CONFIG
                 /\ obs' = [op |-> "mutate",
                            res |-> [obs.res EXCEPT ![k] = [own |-> [@.own EXCEPT ![f] = v]]]]
    /\ ConfigFrame

\* validateReading(reading) is called.
Validate ==
    /\ \E reading \in ValidateInputs :
            obs' = [op |-> "validateReading", reading |-> reading,
                    res |-> validateReading(reading)]
    /\ UNCHANGED CONFIG
    /\ ConfigFrame

ConfigNext == GetConfig \/ SetProperty \/ SetBound \/ Validate

SpecConfig == ConfigInit /\ [][ConfigNext]_vars

\* C22: nothing a caller does to the object getConfig() returned, to its
\* properties or to the ranges they hold, changes the configuration the
\* Dataset Engine uses afterwards.
C22_GetConfigDefensiveCopy ==
    [][obs'.op = "mutate" => CONFIG' = CONFIG]_vars

\* C23: every reading of a successfully generated dataset passes
\* validateReading under the configuration it was generated from, whatever
\* the configuration and whatever order the shuffle left.
C23_GeneratedReadingsValidate ==
    (obs.op = "generate" /\ obs.res.success) =>
        \A i \in 1..Len(obs.res.dataset.v) : validateReading(obs.res.dataset.v[i])

\* a generation returned several readings, the first with the largest
\* systolic value of the range and the last with the smallest
C23_Witness ==
    /\ obs.op = "generate" /\ obs.res.success
    /\ Len(obs.res.dataset.v) >= 3
    /\ PairOf(obs.res.dataset.v[1])[1] = CONFIG.systolic.max
    /\ PairOf(obs.res.dataset.v[Len(obs.res.dataset.v)])[1] = CONFIG.systolic.min

\* ------------------------------------------------------------------------
\* The Dataset Engine under the configuration of the source
\* ------------------------------------------------------------------------
\* CONFIG as the module declares it
RealConfig == Config(Range(90, 140), Range(60, 90), Range(20, 60))

RealInit ==
    /\ CONFIG = RealConfig
    /\ now \in 1..MaxClock
    /\ Blank

\* generateAllCombinations() and calculateExpectedCombinations() are called,
\* as generateBloodPressureDataset() calls them before it shuffles.
Enumerate ==
    /\ obs' = [op |-> "generateAllCombinations",
               res |-> JArr(generateAllCombinations),
               expected |-> calculateExpectedCombinations]
    /\ UNCHANGED CONFIG
    /\ ConfigFrame

RealNext == Validate \/ Enumerate

SpecReal == RealInit /\ [][RealNext]_vars

\* the reading is an object whose systolic and diastolic are numbers
IsReading(x) ==
    /\ x.t = "obj"
    /\ Get(x, Ksystolic).t = "num"
    /\ Get(x, Kdiastolic).t = "num"

\* C24: under the configuration of the source, validateReading returns true
\* exactly when systolic is within [90, 140], diastolic within [60, 90] and
\* systolic minus diastolic within [20, 60]; it returns false for an absent
\* reading and for any reading that breaks one of the three conditions.
C24_ValidateReadingExact ==
    obs.op = "validateReading" =>
        obs.res = ( /\ IsReading(obs.reading)
                    /\ PairOf(obs.reading)[1] \in 90..140
                    /\ PairOf(obs.reading)[2] \in 60..90
                    /\ PairOf(obs.reading)[1] - PairOf(obs.reading)[2] \in 20..60 )

\* validateReading accepted the reading 90/70, on the lower bound of the
\* systolic range and of the pulse-pressure range
C24_Witness ==
    /\ obs.op = "validateReading"
    /\ IsReading(obs.reading)
    /\ PairOf(obs.reading) = <<90, 70>>
    /\ obs.res

\* C29: under the configuration of the source (systolic 90..140, diastolic
\* 60..90, pulse pressure 20..60) the enumeration has exactly 1,161 readings,
\* one per admissible pair of the 51 x 31 grid, and so has the count
\* generateBloodPressureDataset() compares it with; the grid itself has
\* 1,581 pairs.
C29_DatasetHas1161Readings ==
    obs.op = "generateAllCombinations" =>
        /\ Len(obs.res.v) = 1161
        /\ obs.expected = 1161
        /\ Cardinality(Admissible) = 1161
        /\ {PairOf(obs.res.v[i]) : i \in 1..Len(obs.res.v)} = Admissible
        /\ Cardinality((90..140) \X (60..90)) = 1581
        /\ CONFIG = Config(Range(90, 140), Range(60, 90), Range(20, 60))

\* the enumeration ran under the configuration of the source and its first
\* reading is 90/60
C29_Witness ==
    /\ obs.op = "generateAllCombinations"
    /\ CONFIG = RealConfig
    /\ Len(obs.res.v) > 0
    /\ PairOf(obs.res.v[1]) = <<90, 60>>
    /\ Len(obs.res.v) = obs.expected

\* C25: an initializeApp() that replaces the dataset slot of a session whose
\* index slot holds the cursor of one or more taps leaves, whenever it leaves
\* all three slots present, the index slot holding the 0 of the new dataset.
C25_IndexBelongsToDataset ==
    [][ ( /\ PageLoadStep
          /\ obs'.path = "init"
          /\ taps >= 1
          /\ AllSlotsPresent
          /\ AllSlotsPresent'
          /\ localStorage'[STORAGE_KEYS.dataset] # localStorage[STORAGE_KEYS.dataset] )
        => localStorage'[STORAGE_KEYS.index] = <<"0">> ]_vars

\* C26: in every state of the controller the displayed reading is null or
\* passes validateReading, and while isInitialized holds it is not null and
\* is a reading of the non-empty dataset held in memory, whatever the three
\* slots held when the page was opened.
C26_DisplayedReadingValid ==
    /\ appState.currentReading = JNull \/ validateReading(appState.currentReading)
    /\ appState.isInitialized =>
          /\ appState.currentReading # JNull
          /\ dataset.t = "arr"
          /\ Len(dataset.v) > 0
          /\ appState.currentReading \in Elems(dataset.v)

\* a session restored from slots holding a reading outside the ranges beside
\* a valid one is initialized and shows the valid one
C26_Witness ==
    /\ obs.op = "pageload" /\ obs.path = "load" /\ obs.done
    /\ appState.isInitialized
    /\ \E i \in 1..Len(dataset.v) : ~validateReading(dataset.v[i])
    /\ validateReading(appState.currentReading)

\* C27: when startup has run, the loading flag is false and exactly one of
\* two holds: an error message is set, or the controller is initialized with
\* a reading to show and no error.
C27_StartupSettles ==
    obs.op = "pageload" =>
        /\ ~isLoading
        /\ (error # JNull) # (appState.isInitialized /\ appState.currentReading # JNull)
        /\ error # JNull => ~appState.isInitialized

\* startup ended with an error message after a Session Store call failed
C27_Witness ==
    /\ obs.op = "pageload" /\ ~obs.done /\ ~obs.allOk
    /\ ~isLoading
    /\ error # JNull
    /\ ~appState.isInitialized

\* the operations that only read the slots
ReadOps == {"getDataset", "getCurrentIndex", "getTimestamp", "isAppInitialized"}

\* C28: getDataset, getCurrentIndex, getTimestamp and isAppInitialized leave
\* the three slots as they were; storeCurrentIndex, the one Session Store call
\* of a tap, leaves the dataset and timestamp slots as they were; and after a
\* call whose availability probe succeeded the probe's key is absent.
C28_ReadsAndTapsFrame ==
    [][ /\ obs'.op \in ReadOps => SlotsOf(localStorage') = SlotsOf(localStorage)
        /\ obs'.op = "storeCurrentIndex" =>
              /\ getItem(localStorage', STORAGE_KEYS.dataset)
                    = getItem(localStorage, STORAGE_KEYS.dataset)
              /\ getItem(localStorage', STORAGE_KEYS.timestamp)
                    = getItem(localStorage, STORAGE_KEYS.timestamp)
        /\ (obs'.op \in StoreOps \cup ReadOps /\ obs'.h \in {"ok", "opfail"}) =>
              TestKey \notin DOMAIN localStorage' ]_vars

\* getDataset() returned the stored dataset from a store whose three slots
\* are present, and the probe's key is absent
C28_Witness ==
    /\ obs.op = "getDataset" /\ obs.h = "ok" /\ obs.res.success
    /\ AllSlotsPresent
    /\ TestKey \notin DOMAIN localStorage

\* a tap leaves the dataset and timestamp slots as they were
TapKeepsDatasetAndTimestamp ==
    [][ TapStep =>
          /\ getItem(localStorage', STORAGE_KEYS.dataset)
                = getItem(localStorage, STORAGE_KEYS.dataset)
          /\ getItem(localStorage', STORAGE_KEYS.timestamp)
                = getItem(localStorage, STORAGE_KEYS.timestamp) ]_vars

====
